---- MODULE Spec2Model ----
(***************************************************************************)
(* A model of neon's VM safety kernel (src/src/vm.rs, src/src/mem.rs):     *)
(* the borrow ledger, the scope/context hierarchy with its active flag,    *)
(* and the rooting of handles in nested handle scopes.                     *)
(*                                                                         *)
(* The native call stack is the sequence cxs: one frame per closure that   *)
(* Scope::with is running, innermost last.  The host VM's stack of entered *)
(* handle scopes is the sequence host.  Each live VmGuard is an entry of   *)
(* guards.  lastOp records the operation the last step performed and its   *)
(* outcome, the way a caller observes it.  isolates is the host's table of *)
(* VM instances with their external-data slots and heap the class          *)
(* registries allocated for them; info is the call frame the host handed   *)
(* to the running native function and exception the host's pending         *)
(* exception.                                                              *)
(***************************************************************************)
EXTENDS Integers, Sequences, FiniteSets, TLC

VARIABLES cxs, host, guards, panicking, lastOp, isolates, heap, info, exception,
          layout

vars == <<cxs, host, guards, panicking, lastOp, isolates, heap, info, exception,
          layout>>

\* The state outside the scope/context machine and the ledgers.
others == <<isolates, heap, info, exception, layout>>

(***************************************************************************)
(* Bounds of the model.                                                    *)
(***************************************************************************)
MaxDepth == 3
MaxAddr == 2
MaxGuards == 2
MaxLedgers == 1
MaxShared == 1
MaxClaims == 2
MaxArgs == 1
MaxVals == 2
MaxIsolates == 2
MaxTypes == 2
MaxEntries == 2
MaxSize == 3

Addr == 1..MaxAddr
GuardId == 1..MaxGuards
GlobalObj == "global"

RootKinds == {"module", "call", "task"}
NestedKinds == {"execute", "compute"}

(***************************************************************************)
(* Ledger (vm.rs 63-105).  A ledger is the pair of HashSets; a result is   *)
(* the new ledger and Ok / Err(LoanError::Mutating(p)) / Err(Frozen(p)).   *)
(***************************************************************************)
Ledger_new == [immutable_loans |-> {}, mutable_loans |-> {}]

NoObj == "none"

ResOk == [tag |-> "Ok", obj |-> NoObj, a |-> 0]
ErrMutating(p) == [tag |-> "Mutating", obj |-> NoObj, a |-> p]
ErrFrozen(p) == [tag |-> "Frozen", obj |-> NoObj, a |-> p]
ResPanic == [tag |-> "panic", obj |-> NoObj, a |-> 0]
ResThrow == [tag |-> "Throw", obj |-> NoObj, a |-> 0]
ResHandle(h) == [tag |-> "Handle", obj |-> h.obj, a |-> h.scope]
ResConstruct == [tag |-> "Construct", obj |-> NoObj, a |-> 0]
ResCall == [tag |-> "Call", obj |-> NoObj, a |-> 0]
ResInt(n) == [tag |-> "Int", obj |-> NoObj, a |-> n]

\* try_borrow without the test of mutable_loans.
try_borrow_always(l, p) ==
    [ledger |-> [l EXCEPT !.immutable_loans = @ \cup {p}], res |-> ResOk]

\* try_borrow refusing an address that is already shared-claimed.
try_borrow_once(l, p) ==
    IF p \in l.mutable_loans \/ p \in l.immutable_loans
    THEN [ledger |-> l, res |-> ErrMutating(p)]
    ELSE [ledger |-> [l EXCEPT !.immutable_loans = @ \cup {p}], res |-> ResOk]

try_borrow(l, p) ==
    IF p \in l.mutable_loans
    THEN [ledger |-> l, res |-> ErrMutating(p)]
    ELSE [ledger |-> [l EXCEPT !.immutable_loans = @ \cup {p}], res |-> ResOk]

\* settle releasing the exclusive claim on the address as well.
settle_both(l, p) ==
    [immutable_loans |-> l.immutable_loans \ {p},
     mutable_loans |-> l.mutable_loans \ {p}]

settle(l, p) == [l EXCEPT !.immutable_loans = @ \ {p}]

\* try_borrow_mut without the test of immutable_loans.
try_borrow_mut_unfrozen(l, p) ==
    IF p \in l.mutable_loans
    THEN [ledger |-> l, res |-> ErrMutating(p)]
    ELSE [ledger |-> [l EXCEPT !.mutable_loans = @ \cup {p}], res |-> ResOk]

\* An exclusive claim that reports every refusal as LoanError::Mutating.
try_borrow_mut_untyped(l, p) ==
    IF p \in l.mutable_loans \/ p \in l.immutable_loans
    THEN [ledger |-> l, res |-> ErrMutating(p)]
    ELSE [ledger |-> [l EXCEPT !.mutable_loans = @ \cup {p}], res |-> ResOk]

try_borrow_mut(l, p) ==
    IF p \in l.mutable_loans
    THEN [ledger |-> l, res |-> ErrMutating(p)]
    ELSE IF p \in l.immutable_loans
         THEN [ledger |-> l, res |-> ErrFrozen(p)]
         ELSE [ledger |-> [l EXCEPT !.mutable_loans = @ \cup {p}], res |-> ResOk]

\* A release of an exclusive claim that empties the set of exclusive claims.
settle_mut_all(l, p) == [l EXCEPT !.mutable_loans = {}]

\* A release of an exclusive claim that forgets nothing.
settle_mut_noop(l, p) == l

settle_mut(l, p) == [l EXCEPT !.mutable_loans = @ \ {p}]

(***************************************************************************)
(* VmGuard (vm.rs 336-348): a guard owns a fresh ledger.  guards holds the *)
(* live guards, oldest first.  owner is the depth of the closure holding   *)
(* the guard; excl counts, per address, the exclusive claims granted       *)
(* through the guard and not yet released.                                 *)
(***************************************************************************)
\* A guard that starts from the ledger of the guard acquired before it.
VmGuard_shared(d) ==
    [owner |-> d,
     ledger |-> IF guards = <<>> THEN Ledger_new ELSE guards[Len(guards)].ledger,
     excl |-> [p \in Addr |-> 0]]

VmGuard_new(d) ==
    [owner |-> d, ledger |-> Ledger_new, excl |-> [p \in Addr |-> 0]]

Live(g) == g \in 1..Len(guards)

RemoveAt(gs, g) == SubSeq(gs, 1, g - 1) \o SubSeq(gs, g + 1, Len(gs))

Dec(n) == IF n > 0 THEN n - 1 ELSE 0

(***************************************************************************)
(* Host handle scopes (neon_runtime::scope, consumed through Root::enter,  *)
(* Root::exit and scope::escape).  A handle is the object it refers to and *)
(* the scope whose region holds its slot.                                  *)
(***************************************************************************)
ScopeIds == 1..(2 * MaxDepth + 2)

HostIds(hs) == {hs[k].id : k \in 1..Len(hs)}

HeldScopes(st) == UNION {{h.scope : h \in st[k].hs} : k \in 1..Len(st)}

FreshScope(hs, st) ==
    CHOOSE s \in ScopeIds :
        /\ s \notin HostIds(hs) \cup HeldScopes(st)
        /\ \A t \in ScopeIds : t < s => t \in HostIds(hs) \cup HeldScopes(st)

HostEnter(hs, s, escapable) == Append(hs, [id |-> s, escapable |-> escapable])

Pos(hs, s) == CHOOSE k \in 1..Len(hs) : hs[k].id = s

\* Exiting a region restores the host's region stack to what it was when
\* the region was entered.
HostExit(hs, s) ==
    IF s \in HostIds(hs) THEN SubSeq(hs, 1, Pos(hs, s) - 1) ELSE hs

\* scope::escape: a slot for the object in the region next-outer to the
\* escapable one.
HostEscape(hs, s, h) == [obj |-> h.obj, scope |-> hs[Pos(hs, s) - 1].id]

CurrentScope(hs) == hs[Len(hs)].id

Valid(h) == h.scope \in HostIds(host)

(***************************************************************************)
(* ScopeMetadata and ContextInternal (vm.rs 142-195).                      *)
(***************************************************************************)
Scope_new(kind, s, parent, n, construct) ==
    [kind |-> kind, active |-> TRUE, scope |-> s, parent |-> parent,
     hs |-> {}, len |-> n, construct |-> construct]

is_active(c) == c.active

\* check_active letting every context pass.
check_active_always(c) == TRUE

check_active(c) == is_active(c)

activate(st, i) == [st EXCEPT ![i].active = TRUE]

\* deactivate leaving the flag as it is.
deactivate_noop(st, i) == st

deactivate(st, i) == [st EXCEPT ![i].active = FALSE]

Top == Len(cxs)

Pop(st) == SubSeq(st, 1, Len(st) - 1)

Running == panicking = "none" /\ cxs # <<>>

\* The guards held by the closure at depth d go when its frame goes.
DropOwned(gs, d) == SelectSeq(gs, LAMBDA x : x.owner < d)

\* What the last step of the scope/context machine or of a ledger did: the
\* operation, the context (cx) or guard (g) and
\* address (p) it was applied to, whether that context was active before
\* it (act), whether the ledger held p as shared-claimed before it (pi), the
\* scope it exited (s), what the closure of a nested computation returned
\* (ret), the calls of the host's escape primitive it made (esc) and the
\* result.
Op(op, cx, act, res) ==
    [op |-> op, cx |-> cx, g |-> 0, p |-> 0, act |-> act, pi |-> FALSE,
     pm |-> FALSE, s |-> 0, ret |-> ResOk, esc |-> <<>>, res |-> res]

ExitOp(op, cx, act, s, res) == [Op(op, cx, act, res) EXCEPT !.s = s]

\* One call of neon_runtime::scope::escape (vm.rs 465): the escapable scope
\* and the handle passed to it, and whether that scope was entered then.
EscapeCall(hs, s, h) == [scope |-> s, h |-> h, entered |-> s \in HostIds(hs)]

ComputeOp(cx, s, ret, esc, res) ==
    [ExitOp("return_compute", cx, TRUE, s, res) EXCEPT !.ret = ret, !.esc = esc]

GuardOp(op, cx, g) == [Op(op, cx, TRUE, ResOk) EXCEPT !.g = g]

LedgerOp(op, g, p, l, res) ==
    [Op(op, 0, TRUE, res) EXCEPT !.g = g, !.p = p,
                                 !.pi = p \in l.immutable_loans,
                                 !.pm = p \in l.mutable_loans]

\* panic!("VM context is inactive") (vm.rs 189): nothing but the unwinding
\* starts.
Raise(op, i) ==
    /\ panicking' = "inactive"
    /\ lastOp' = Op(op, i, FALSE, ResPanic)
    /\ UNCHANGED <<cxs, host, guards>>

\* No VM instance has used its class registry, no native function is
\* running and no exception is pending.
NoData == 0

NoInfo == [args |-> <<>>, construct |-> FALSE]

NoException == [kind |-> "none", msg |-> <<>>]

(***************************************************************************)
(* The rooting-region primitive's layout.  The native side reserves        *)
(* mem::size_of::<raw::HandleScope>() bytes at                             *)
(* mem::align_of::<raw::HandleScope>() for a scope (vm.rs 547-548); the    *)
(* host reports what its version of the primitive needs through            *)
(* neon_runtime::scope::size() and alignment().  layout holds what the     *)
(* host reports and whether the build keeps debug assertions.              *)
(***************************************************************************)
size_of == 2

align_of == 2

scope_size(l) == l.size

scope_alignment(l) == l.alignment

Layouts == [size : 1..MaxSize, alignment : 1..MaxSize, debug : BOOLEAN]

\* The host the library was built against.
HostLayout == [size |-> size_of, alignment |-> align_of, debug |-> TRUE]

\* debug_assert!(size() <= size_of) and debug_assert!(alignment() <=
\* align_of) at the head of ModuleContext::with (vm.rs 547-548); the other
\* contexts' with have none.
layout_asserts(kind, l) ==
    (kind = "module" /\ l.debug) =>
        /\ scope_size(l) <= size_of
        /\ scope_alignment(l) <= align_of

Idle ==
    /\ cxs = <<>>
    /\ host = <<>>
    /\ guards = <<>>
    /\ panicking = "none"
    /\ lastOp = Op("init", 0, TRUE, ResOk)

Init ==
    /\ Idle
    /\ isolates = [i \in {} |-> NoData]
    /\ heap = [b \in {} |-> NoData]
    /\ info = NoInfo
    /\ exception = NoException
    /\ layout = HostLayout

(***************************************************************************)
(* The host invokes a trampoline, loads the module or delivers a task      *)
(* completion: ModuleContext::with, CallContext::with, TaskContext::with   *)
(* run Scope::with up to the call of the closure (vm.rs 153-167).          *)
(***************************************************************************)
Scope_with(st, hs, kind, parent, escapable, n, construct) ==
    LET s == FreshScope(hs, st) IN
    [host |-> HostEnter(hs, s, escapable),
     cxs |-> Append(st, Scope_new(kind, s, parent, n, construct))]

HostInvoke(kind, n, construct) ==
    /\ cxs = <<>>
    /\ panicking = "none"
    /\ IF ~layout_asserts(kind, layout)
       THEN /\ panicking' = "layout"
            /\ lastOp' = Op(kind, 1, TRUE, ResPanic)
            /\ UNCHANGED <<cxs, host, guards>>
       ELSE /\ LET r == Scope_with(cxs, host, kind, 0, FALSE, n, construct) IN
               /\ cxs' = r.cxs
               /\ host' = r.host
            /\ lastOp' = Op(kind, 1, TRUE, ResOk)
            /\ UNCHANGED <<guards, panicking>>
    /\ UNCHANGED others

(***************************************************************************)
(* Context::execute_scoped and Context::compute_scoped up to the call of   *)
(* the closure (vm.rs 439-444, 454-463).                                   *)
(***************************************************************************)
scoped_enter(st, hs, i, kind) ==
    Scope_with(deactivate(st, i), hs, kind, i, kind = "compute", 0, FALSE)

execute_scoped(i) ==
    /\ Running
    /\ i \in 1..Top
    /\ IF ~check_active(cxs[i])
       THEN Raise("execute_scoped", i)
       ELSE /\ Top < MaxDepth
            /\ LET r == scoped_enter(cxs, host, i, "execute") IN
               /\ cxs' = r.cxs
               /\ host' = r.host
            /\ lastOp' = Op("execute_scoped", i, TRUE, ResOk)
            /\ UNCHANGED <<guards, panicking>>
    /\ UNCHANGED others

compute_scoped(i) ==
    /\ Running
    /\ i \in 1..Top
    /\ IF ~check_active(cxs[i])
       THEN Raise("compute_scoped", i)
       ELSE /\ Top < MaxDepth
            /\ LET r == scoped_enter(cxs, host, i, "compute") IN
               /\ cxs' = r.cxs
               /\ host' = r.host
            /\ lastOp' = Op("compute_scoped", i, TRUE, ResOk)
            /\ UNCHANGED <<guards, panicking>>
    /\ UNCHANGED others

(***************************************************************************)
(* The closure of the innermost context returns: the rest of Scope::with   *)
(* (vm.rs 169-172) and of execute_scoped / compute_scoped (vm.rs 445-446,  *)
(* 464-470), or of the root context's with.                                *)
(***************************************************************************)
scope_exit(hs, s) == HostExit(hs, s)

\* execute_scoped / compute_scoped returning without self.activate().
scoped_leave_inactive(st, i) == Pop(st)

scoped_leave(st, i) == activate(Pop(st), i)

\* compute_scoped returning the escapee itself, not promoted.
escape_none(hs, s, h) == h

escape(hs, s, h) == HostEscape(hs, s, h)

ReturnRoot ==
    /\ Running
    /\ cxs[Top].kind \in RootKinds
    /\ host' = scope_exit(host, cxs[Top].scope)
    /\ cxs' = Pop(cxs)
    /\ guards' = DropOwned(guards, Top)
    /\ lastOp' = ExitOp("return_root", 0, TRUE, cxs[Top].scope, ResOk)
    /\ UNCHANGED panicking
    /\ UNCHANGED others

ReturnExecute ==
    /\ Running
    /\ cxs[Top].kind = "execute"
    /\ LET t == cxs[Top] IN
       /\ host' = scope_exit(host, t.scope)
       /\ cxs' = scoped_leave(cxs, t.parent)
       /\ lastOp' = ExitOp("return_execute", t.parent, TRUE, t.scope, ResOk)
    /\ guards' = DropOwned(guards, Top)
    /\ UNCHANGED panicking
    /\ UNCHANGED others

\* The closure returned Ok(escapee): the escapee is a handle of the inner
\* context's lifetime.
ReturnComputeOk ==
    /\ Running
    /\ cxs[Top].kind = "compute"
    /\ LET t == cxs[Top] IN
       \E h \in t.hs :
           LET e == escape(host, t.scope, h) IN
           /\ host' = scope_exit(host, t.scope)
           /\ cxs' = [scoped_leave(cxs, t.parent) EXCEPT ![t.parent].hs = @ \cup {e}]
           /\ lastOp' = ComputeOp(t.parent, t.scope, ResHandle(h),
                                  <<EscapeCall(host, t.scope, h)>>, ResHandle(e))
    /\ guards' = DropOwned(guards, Top)
    /\ UNCHANGED panicking
    /\ UNCHANGED others

\* compute_scoped escaping a handle although the closure returned Err(Throw).
ReturnComputeErr_escaping ==
    /\ Running
    /\ cxs[Top].kind = "compute"
    /\ LET t == cxs[Top] IN
       \E h \in t.hs :
           /\ host' = scope_exit(host, t.scope)
           /\ cxs' = scoped_leave(cxs, t.parent)
           /\ lastOp' = ComputeOp(t.parent, t.scope, ResThrow,
                                  <<EscapeCall(host, t.scope, h)>>, ResThrow)
    /\ guards' = DropOwned(guards, Top)
    /\ UNCHANGED panicking
    /\ UNCHANGED others

\* The closure returned Err(Throw): `?` leaves before the escape.
ReturnComputeErr ==
    /\ Running
    /\ cxs[Top].kind = "compute"
    /\ LET t == cxs[Top] IN
       /\ host' = scope_exit(host, t.scope)
       /\ cxs' = scoped_leave(cxs, t.parent)
       /\ lastOp' = ComputeOp(t.parent, t.scope, ResThrow, <<>>, ResThrow)
    /\ guards' = DropOwned(guards, Top)
    /\ UNCHANGED panicking
    /\ UNCHANGED others

(***************************************************************************)
(* Abnormal termination.  A panic unwinds the closures one frame at a time *)
(* until a catch_unwind of some enclosing closure stops it; an unwound     *)
(* frame runs none of the statements after f(scope) in Scope::with         *)
(* (vm.rs 167-172) nor after ExecuteContext::with / ComputeContext::with   *)
(* in execute_scoped / compute_scoped (vm.rs 444-446, 460-470).  A panic   *)
(* that leaves the root closure ends the process.                          *)
(***************************************************************************)
Panic ==
    /\ Running
    /\ panicking' = "user"
    /\ lastOp' = Op("panic", Top, cxs[Top].active, ResPanic)
    /\ UNCHANGED <<cxs, host, guards>>
    /\ UNCHANGED others

unwind_frame(st) == Pop(st)

Unwind ==
    /\ panicking # "none"
    /\ cxs # <<>>
    /\ cxs' = unwind_frame(cxs)
    /\ guards' = DropOwned(guards, Top)
    /\ lastOp' = Op("unwind", cxs[Top].parent, TRUE, ResPanic)
    /\ UNCHANGED <<host, panicking>>
    /\ UNCHANGED others

Catch ==
    /\ panicking # "none"
    /\ cxs # <<>>
    /\ panicking' = "none"
    /\ lastOp' = Op("catch", IF lastOp.op = "unwind" THEN lastOp.cx ELSE 0,
                    TRUE, ResPanic)
    /\ UNCHANGED <<cxs, host, guards>>
    /\ UNCHANGED others

(***************************************************************************)
(* Context::lock, borrow and borrow_mut (vm.rs 358-361, 387-395, 424-432). *)
(* They take &self, so the running closure can call them on any context of *)
(* the stack it holds a shared reference to.                               *)
(***************************************************************************)
lock(i) ==
    /\ Running
    /\ i \in 1..Top
    /\ IF ~check_active(cxs[i])
       THEN Raise("lock", i)
       ELSE /\ Len(guards) < MaxGuards
            /\ guards' = Append(guards, VmGuard_new(Top))
            /\ lastOp' = GuardOp("lock", i, Len(guards) + 1)
            /\ UNCHANGED <<cxs, host, panicking>>
    /\ UNCHANGED others

\* The guard is dropped by the closure that holds it.
DropGuard(g) ==
    /\ Running
    /\ Live(g)
    /\ guards[g].owner = Top
    /\ guards' = RemoveAt(guards, g)
    /\ lastOp' = GuardOp("drop_guard", 0, g)
    /\ UNCHANGED <<cxs, host, panicking>>
    /\ UNCHANGED others

\* lock, one claim on the buffer's address in the guard's fresh ledger, the
\* inspection, and the release with the guard; whatever the address, the
\* claim on the fresh ledger has one outcome.
borrow(i) ==
    /\ Running
    /\ i \in 1..Top
    /\ IF ~check_active(cxs[i])
       THEN Raise("borrow", i)
       ELSE /\ lastOp' \in {Op("borrow", i, TRUE, try_borrow(Ledger_new, p).res) :
                               p \in Addr}
            /\ UNCHANGED <<cxs, host, guards, panicking>>
    /\ UNCHANGED others

borrow_mut(i) ==
    /\ Running
    /\ i \in 1..Top
    /\ IF ~check_active(cxs[i])
       THEN Raise("borrow_mut", i)
       ELSE /\ lastOp' \in {Op("borrow_mut", i, TRUE, try_borrow_mut(Ledger_new, p).res) :
                               p \in Addr}
            /\ UNCHANGED <<cxs, host, guards, panicking>>
    /\ UNCHANGED others

(***************************************************************************)
(* CallContext::len and CallContext::kind (vm.rs 652, 665) take &self and  *)
(* read the call frame.                                                    *)
(***************************************************************************)
len(i) ==
    /\ Running
    /\ i \in 1..Top
    /\ cxs[i].kind = "call"
    /\ lastOp' = Op("len", i, cxs[i].active, ResInt(cxs[i].len))
    /\ UNCHANGED <<cxs, host, guards, panicking>>
    /\ UNCHANGED others

kind(i) ==
    /\ Running
    /\ i \in 1..Top
    /\ cxs[i].kind = "call"
    /\ lastOp' = Op("kind", i, cxs[i].active,
                    IF cxs[i].construct THEN ResConstruct ELSE ResCall)
    /\ UNCHANGED <<cxs, host, guards, panicking>>
    /\ UNCHANGED others

(***************************************************************************)
(* Context::global (vm.rs 528-534) takes &mut self: only the innermost     *)
(* context is not borrowed by a running execute_scoped / compute_scoped.   *)
(* The host roots the new handle in its current region.                    *)
(***************************************************************************)
new_handle(hs, obj) == [obj |-> obj, scope |-> CurrentScope(hs)]

global ==
    /\ Running
    /\ LET h == new_handle(host, GlobalObj) IN
       /\ cxs' = [cxs EXCEPT ![Top].hs = @ \cup {h}]
       /\ lastOp' = Op("global", Top, cxs[Top].active, ResHandle(h))
    /\ UNCHANGED <<host, guards, panicking>>
    /\ UNCHANGED others

(***************************************************************************)
(* Claims and releases through a live guard's ledger.                      *)
(***************************************************************************)
TryBorrow(g, p) ==
    /\ Running
    /\ Live(g)
    /\ LET r == try_borrow(guards[g].ledger, p) IN
       /\ guards' = [guards EXCEPT ![g].ledger = r.ledger]
       /\ lastOp' = LedgerOp("try_borrow", g, p, guards[g].ledger, r.res)
    /\ UNCHANGED <<cxs, host, panicking>>
    /\ UNCHANGED others

Settle(g, p) ==
    /\ Running
    /\ Live(g)
    /\ guards' = [guards EXCEPT ![g].ledger = settle(@, p)]
    /\ lastOp' = LedgerOp("settle", g, p, guards[g].ledger, ResOk)
    /\ UNCHANGED <<cxs, host, panicking>>
    /\ UNCHANGED others

TryBorrowMut(g, p) ==
    /\ Running
    /\ Live(g)
    /\ guards[g].excl[p] < MaxClaims
    /\ LET r == try_borrow_mut(guards[g].ledger, p) IN
       /\ guards' = [guards EXCEPT ![g].ledger = r.ledger,
                                   ![g].excl[p] = IF r.res = ResOk THEN @ + 1 ELSE @]
       /\ lastOp' = LedgerOp("try_borrow_mut", g, p, guards[g].ledger, r.res)
    /\ UNCHANGED <<cxs, host, panicking>>
    /\ UNCHANGED others

SettleMut(g, p) ==
    /\ Running
    /\ Live(g)
    /\ guards' = [guards EXCEPT ![g].ledger = settle_mut(@, p),
                                ![g].excl[p] = Dec(@)]
    /\ lastOp' = LedgerOp("settle_mut", g, p, guards[g].ledger, ResOk)
    /\ UNCHANGED <<cxs, host, panicking>>
    /\ UNCHANGED others

(***************************************************************************)
(* The class registry (vm.rs 107-133, 232-250).  The host keeps, for each  *)
(* VM instance, an external-data slot (NoData when empty) and the          *)
(* finalizer installed with it; installs counts the calls of               *)
(* set_class_map on the instance.  heap holds the boxed ClassMaps by       *)
(* address.  A ClassMap is its HashMap, a function from the registered     *)
(* TypeIds to their ClassMetadata.                                         *)
(***************************************************************************)
IsolateId == 1..MaxIsolates
TypeId == 1..MaxTypes
\* ClassMetadata is an opaque payload: two records that differ.
ClassMetadata == {"first", "second"}
BoxAddr == 1..(MaxIsolates + 1)

Isolate_new == [data |-> NoData, installs |-> 0]

get_class_map(isos, iso) == isos[iso].data

set_class_map(isos, iso, ptr) ==
    [isos EXCEPT ![iso] = [data |-> ptr, installs |-> @.installs + 1]]

ClassMap_new == [map |-> [k \in {} |-> "none"]]

None == [tag |-> "None", val |-> "none"]
Some(v) == [tag |-> "Some", val |-> v]

ClassMap_get(m, key) ==
    IF key \in DOMAIN m.map THEN Some(m.map[key]) ELSE None

\* set keeping the metadata registered first.
ClassMap_set_keep(m, key, val) ==
    [map |-> [k \in DOMAIN m.map \cup {key} |->
                 IF k \in DOMAIN m.map THEN m.map[k] ELSE val]]

ClassMap_set(m, key, val) ==
    [map |-> [k \in DOMAIN m.map \cup {key} |->
                 IF k = key THEN val ELSE m.map[k]]]

\* Box::new and Box::into_raw: an address no live box has; the allocator
\* is free to give the address numbered like the instance when it is free.
Box_new(hp, iso) ==
    CHOOSE b \in BoxAddr : b \notin DOMAIN hp /\ (iso \notin DOMAIN hp => b = iso)

Box_put(hp, b, v) == [a \in DOMAIN hp \cup {b} |-> IF a = b THEN v ELSE hp[a]]

\* class_map allocating and installing a registry on every call.
class_map_always(isos, hp, iso) ==
    LET raw == Box_new(hp, iso) IN
    [isolates |-> set_class_map(isos, iso, raw),
     heap |-> Box_put(hp, raw, ClassMap_new),
     ptr |-> raw]

\* class_map keeping one registry, in the slot of the first instance, for
\* all the instances.
class_map_shared(isos, hp, iso) ==
    LET first == CHOOSE j \in DOMAIN isos : \A k \in DOMAIN isos : j <= k
        ptr == get_class_map(isos, first) IN
    IF ptr = NoData
    THEN LET raw == Box_new(hp, iso) IN
         [isolates |-> set_class_map(isos, first, raw),
          heap |-> Box_put(hp, raw, ClassMap_new),
          ptr |-> raw]
    ELSE [isolates |-> isos, heap |-> hp, ptr |-> ptr]

class_map(isos, hp, iso) ==
    LET ptr == get_class_map(isos, iso) IN
    IF ptr = NoData
    THEN LET raw == Box_new(hp, iso) IN
         [isolates |-> set_class_map(isos, iso, raw),
          heap |-> Box_put(hp, raw, ClassMap_new),
          ptr |-> raw]
    ELSE [isolates |-> isos, heap |-> hp, ptr |-> ptr]

\* The finalizer the host calls with the slot's data when it destroys the
\* instance.
drop_class_map(hp, ptr) == [a \in DOMAIN hp \ {ptr} |-> hp[a]]

\* What a lookup of key in the registry of instance iso gives in a state.
Lookup(isos, hp, iso, key) ==
    IF iso \notin DOMAIN isos \/ get_class_map(isos, iso) \notin DOMAIN hp
    THEN None
    ELSE ClassMap_get(hp[get_class_map(isos, iso)], key)

EntryCount(hp) == Cardinality({<<a, k>> \in BoxAddr \X TypeId :
                                  a \in DOMAIN hp /\ k \in DOMAIN hp[a].map})

ClassOp(op, iso, key, val, ptr, prev, res) ==
    [op |-> op, iso |-> iso, key |-> key, val |-> val, ptr |-> ptr,
     prev |-> prev, res |-> res]

NewIsolate(iso) ==
    /\ iso \notin DOMAIN isolates
    /\ isolates' = [j \in DOMAIN isolates \cup {iso} |->
                       IF j = iso THEN Isolate_new ELSE isolates[j]]
    /\ lastOp' = ClassOp("new_isolate", iso, 0, "none", NoData, None, None)
    /\ UNCHANGED <<cxs, host, guards, panicking, heap, info, layout, exception>>

DisposeIsolate(iso) ==
    /\ iso \in DOMAIN isolates
    /\ isolates' = [j \in DOMAIN isolates \ {iso} |-> isolates[j]]
    /\ heap' = IF isolates[iso].installs > 0
               THEN drop_class_map(heap, isolates[iso].data)
               ELSE heap
    /\ lastOp' = ClassOp("dispose", iso, 0, "none", isolates[iso].data, None, None)
    /\ UNCHANGED <<cxs, host, guards, panicking, info, layout, exception>>

\* isolate.class_map().get(&key)
ClassGet(iso, key) ==
    /\ iso \in DOMAIN isolates
    /\ LET r == class_map(isolates, heap, iso) IN
       /\ isolates' = r.isolates
       /\ heap' = r.heap
       /\ lastOp' = ClassOp("class_get", iso, key, "none", r.ptr, None,
                            ClassMap_get(r.heap[r.ptr], key))
    /\ UNCHANGED <<cxs, host, guards, panicking, info, layout, exception>>

\* isolate.class_map().set(key, val)
ClassSet(iso, key, val) ==
    /\ iso \in DOMAIN isolates
    /\ EntryCount(heap) < MaxEntries \/ Lookup(isolates, heap, iso, key) # None
    /\ LET r == class_map(isolates, heap, iso) IN
       /\ isolates' = r.isolates
       /\ heap' = [r.heap EXCEPT ![r.ptr] = ClassMap_set(@, key, val)]
       /\ lastOp' = ClassOp("class_set", iso, key, val, r.ptr,
                            Lookup(isolates, heap, iso, key), None)
    /\ UNCHANGED <<cxs, host, guards, panicking, info, layout, exception>>

(***************************************************************************)
(* Values, value kinds and handles (mem.rs).  A host value is its identity *)
(* and its runtime kind.  A handle is the value it refers to (obj), the    *)
(* scope of the context whose lifetime it carries (scope) and its static   *)
(* kind (ty).  The runtime type tests, the names of the kinds and the      *)
(* supertype relation belong to the value kinds (js::Value,                *)
(* js::internal::SuperType).                                               *)
(***************************************************************************)
ValueKinds == {"number", "string", "object", "array"}

HostValue == [id : 1..MaxVals, kind : ValueKinds]

Undefined == [id |-> 0, kind |-> "undefined"]

ValueTypes == {"JsValue", "JsNumber", "JsString", "JsObject", "JsArray"}

is_typeof(K, v) ==
    CASE K = "JsValue" -> TRUE
      [] K = "JsNumber" -> v.kind = "number"
      [] K = "JsString" -> v.kind = "string"
      [] K = "JsObject" -> v.kind \in {"object", "array"}
      [] K = "JsArray" -> v.kind = "array"

name(K) ==
    CASE K = "JsValue" -> "any"
      [] K = "JsNumber" -> "number"
      [] K = "JsString" -> "string"
      [] K = "JsObject" -> "object"
      [] K = "JsArray" -> "array"

\* The kinds U with SuperType<T> for U.
SuperTypes(T) ==
    {"JsValue"} \cup (IF T \in {"JsObject", "JsArray"} THEN {"JsObject"} ELSE {})

\* SuperType::upcast_internal: the same raw value under the other kind.
upcast_internal(v) == v

\* Value::downcast: the value under the kind K if it passes K's test.
Value_downcast(K, v) == IF is_typeof(K, v) THEN Some(v) ELSE None

\* neon_runtime::mem::same_handle: the two locals refer to the same value.
same_handle(v, w) == v = w

Ok(h) == [tag |-> "Ok", h |-> h]
Err(e) == [tag |-> "Err", e |-> e]
Throw == [tag |-> "Throw"]

Handle_new_internal(v, s, ty) == [obj |-> v, scope |-> s, ty |-> ty]

Handle_eq(a, b) == same_handle(a.obj, b.obj)

\* format!("failed downcast to {}", T::name()), word by word.
DowncastError_new(T) == [description |-> <<"failed", "downcast", "to", name(T)>>]

\* upcast giving a handle to another value.
upcast_fresh(h, U) == Handle_new_internal(Undefined, h.scope, U)

upcast(h, U) == Handle_new_internal(upcast_internal(h.obj), h.scope, U)

is_a(h, U) == is_typeof(U, h.obj)

\* downcast without the runtime type test.
downcast_unchecked(h, U) == Ok(Handle_new_internal(h.obj, h.scope, U))

downcast(h, U) ==
    LET r == Value_downcast(U, h.obj) IN
    IF r.tag = "Some"
    THEN Ok(Handle_new_internal(r.val, h.scope, U))
    ELSE Err(DowncastError_new(U))

\* JsError::throw: the host enters the throwing state with the error and the
\* caller gets the sentinel.
JsError_throw(k, msg) ==
    [exception |-> [kind |-> k, msg |-> msg], res |-> Throw]

\* unwrap_or_throw returning the sentinel without throwing.
unwrap_or_throw_silent(r, exc) ==
    IF r.tag = "Ok"
    THEN [exception |-> exc, res |-> Ok(r.h)]
    ELSE [exception |-> exc, res |-> Throw]

\* unwrap_or_throw (mem.rs 85-92) on a DowncastResult, the host's pending
\* exception being exc.
unwrap_or_throw(r, exc) ==
    IF r.tag = "Ok"
    THEN [exception |-> exc, res |-> Ok(r.h)]
    ELSE JsError_throw("TypeError", r.e.description)

(***************************************************************************)
(* CallbackInfo (vm.rs 252-316) and the argument access of CallContext     *)
(* (vm.rs 664-676).  info is the host's call frame.  Each operator gives   *)
(* the result, the host's pending exception after it and the indices it    *)
(* fetched from the host with neon_runtime::call::get.                     *)
(***************************************************************************)
\* The i32 indices tried: the extremes, -1 and the ones around the frames'
\* argument counts.
MinInt32 == -2147483647 - 1
MaxInt32 == 2147483647

Int32 == {MinInt32, -1} \cup (0..(MaxArgs + 1)) \cup {MaxInt32}

NotEnough == <<"not", "enough", "arguments">>

CallbackInfo_new(args) == [args |-> args, construct |-> FALSE]

CallbackInfo_len(inf) == Len(inf.args)

\* neon_runtime::call::get: the slot, or undefined past the last one.
call_get(inf, i) ==
    IF i \in 0..(Len(inf.args) - 1) THEN inf.args[i + 1] ELSE Undefined

CallbackInfo_get(inf, s, i) ==
    IF i < 0 \/ i >= CallbackInfo_len(inf)
    THEN [res |-> None, fetched |-> <<>>]
    ELSE [res |-> Some(Handle_new_internal(call_get(inf, i), s, "JsValue")),
          fetched |-> <<i>>]

\* require testing the upper bound only.
CallbackInfo_require_upper(inf, s, exc, i) ==
    IF i >= CallbackInfo_len(inf)
    THEN [res |-> Throw, fetched |-> <<>>,
          exception |-> JsError_throw("TypeError", NotEnough).exception]
    ELSE [res |-> Ok(Handle_new_internal(call_get(inf, i), s, "JsValue")),
          fetched |-> <<i>>, exception |-> exc]

CallbackInfo_require(inf, s, exc, i) ==
    IF i < 0 \/ i >= CallbackInfo_len(inf)
    THEN [res |-> Throw, fetched |-> <<>>,
          exception |-> JsError_throw("TypeError", NotEnough).exception]
    ELSE [res |-> Ok(Handle_new_internal(call_get(inf, i), s, "JsValue")),
          fetched |-> <<i>>, exception |-> exc]

argument_opt(inf, s, i) == CallbackInfo_get(inf, s, i)

\* argument fetching the slot without require.
argument_unrequired(inf, s, exc, i, V) ==
    LET a == Handle_new_internal(call_get(inf, i), s, "JsValue")
        r == unwrap_or_throw(downcast(a, V), exc) IN
    [res |-> r.res, fetched |-> <<i>>, exception |-> r.exception]

argument(inf, s, exc, i, V) ==
    LET a == CallbackInfo_require(inf, s, exc, i) IN
    IF a.res = Throw
    THEN a
    ELSE LET r == unwrap_or_throw(downcast(a.res.h, V), exc) IN
         [res |-> r.res, fetched |-> a.fetched, exception |-> r.exception]

\* numbers.rs 25-28: let number: Handle<JsNumber> = cx.argument(0)?;
\* Ok(number)
accept_and_return_js_number(inf, s, exc) ==
    LET number == argument(inf, s, exc, 0, "JsNumber") IN
    IF number.res = Throw
    THEN number
    ELSE [number EXCEPT !.res = Ok(number.res.h)]

\* What the last step of the native function did: the operation, its index
\* (i) and target kind (ty), the value it was applied to (from) and the
\* operation that had given that value (src), the indices fetched from the
\* host and the result.
ValueOp(op, i, ty, from, src, fetched, res) ==
    [op |-> op, i |-> i, ty |-> ty, from |-> from, src |-> src,
     fetched |-> fetched, res |-> res]

\* The handle a result carries, if it carries one.
HasHandle(r) == r.tag = "Ok" \/ r.tag = "Some"

HandleOf(r) == IF r.tag = "Ok" THEN r.h ELSE r.val

ValueOps ==
    {"argument_opt", "require", "argument", "accept_and_return_js_number",
     "upcast", "downcast", "unwrap_or_throw"}

InCall == Running /\ cxs[Top].kind = "call"

ArgumentOpt(i) ==
    /\ InCall
    /\ LET r == argument_opt(info, cxs[Top].scope, i) IN
       lastOp' = ValueOp("argument_opt", i, "JsValue", None, "none", r.fetched, r.res)
    /\ UNCHANGED <<cxs, host, guards, panicking, isolates, heap, info, layout, exception>>

Require(i) ==
    /\ InCall
    /\ LET r == CallbackInfo_require(info, cxs[Top].scope, exception, i) IN
       /\ lastOp' = ValueOp("require", i, "JsValue", None, "none", r.fetched, r.res)
       /\ exception' = r.exception
    /\ UNCHANGED <<cxs, host, guards, panicking, isolates, heap, info, layout>>

Argument(i, V) ==
    /\ InCall
    /\ LET r == argument(info, cxs[Top].scope, exception, i, V) IN
       /\ lastOp' = ValueOp("argument", i, V, None, "none", r.fetched, r.res)
       /\ exception' = r.exception
    /\ UNCHANGED <<cxs, host, guards, panicking, isolates, heap, info, layout>>

AcceptAndReturnJsNumber ==
    /\ InCall
    /\ LET r == accept_and_return_js_number(info, cxs[Top].scope, exception) IN
       /\ lastOp' = ValueOp("accept_and_return_js_number", 0, "JsNumber", None,
                            "none", r.fetched, r.res)
       /\ exception' = r.exception
    /\ UNCHANGED <<cxs, host, guards, panicking, isolates, heap, info, layout>>

\* The native function upcasts the handle the last operation gave it.
Upcast(U) ==
    /\ InCall
    /\ lastOp.op \in ValueOps
    /\ HasHandle(lastOp.res)
    /\ LET h == HandleOf(lastOp.res) IN
       /\ U \in SuperTypes(h.ty)
       /\ lastOp' = ValueOp("upcast", 0, U, h, lastOp.op, <<>>, Ok(upcast(h, U)))
    /\ UNCHANGED <<cxs, host, guards, panicking, isolates, heap, info, layout, exception>>

\* The native function downcasts the handle the last operation gave it.
Downcast(U) ==
    /\ InCall
    /\ lastOp.op \in ValueOps \ {"downcast"}
    /\ HasHandle(lastOp.res)
    /\ LET h == HandleOf(lastOp.res) IN
       lastOp' = ValueOp("downcast", 0, U, h, lastOp.op, <<>>, downcast(h, U))
    /\ UNCHANGED <<cxs, host, guards, panicking, isolates, heap, info, layout, exception>>

\* The native function promotes the DowncastResult it just got.
UnwrapOrThrow ==
    /\ InCall
    /\ lastOp.op = "downcast"
    /\ LET r == unwrap_or_throw(lastOp.res, exception) IN
       /\ lastOp' = ValueOp("unwrap_or_throw", 0, lastOp.ty, lastOp.res, "downcast",
                            <<>>, r.res)
       /\ exception' = r.exception
    /\ UNCHANGED <<cxs, host, guards, panicking, isolates, heap, info, layout>>

(***************************************************************************)
(* The specifications.                                                     *)
(***************************************************************************)
HostStep ==
    \E k \in RootKinds :
        \E n \in 0..MaxArgs, c \in BOOLEAN :
            /\ k # "call" => n = 0 /\ ~c
            /\ HostInvoke(k, n, c)

ContextStep ==
    \/ \E i \in 1..MaxDepth : execute_scoped(i)
    \/ \E i \in 1..MaxDepth : compute_scoped(i)
    \/ ReturnRoot
    \/ ReturnExecute
    \/ ReturnComputeOk
    \/ ReturnComputeErr
    \/ Panic
    \/ Unwind
    \/ Catch
    \/ \E i \in 1..MaxDepth : lock(i)
    \/ \E g \in GuardId : DropGuard(g)
    \/ \E i \in 1..MaxDepth : borrow(i)
    \/ \E i \in 1..MaxDepth : borrow_mut(i)
    \/ \E i \in 1..MaxDepth : len(i)
    \/ \E i \in 1..MaxDepth : kind(i)
    \/ global

LedgerStep ==
    \/ \E g \in GuardId, p \in Addr : TryBorrow(g, p)
    \/ \E g \in GuardId, p \in Addr : Settle(g, p)
    \/ \E g \in GuardId, p \in Addr : TryBorrowMut(g, p)
    \/ \E g \in GuardId, p \in Addr : SettleMut(g, p)

\* The context machine.  Ledger's methods read and write the ledger alone
\* (vm.rs 76-104), so the claims and releases are explored separately, in
\* LedgerSpec.
Next == HostStep \/ ContextStep

Spec == Init /\ [][Next]_vars

\* The ledgers of the guards taken in a root context, at most MaxLedgers of
\* them at a time.
LedgerNext ==
    \/ HostStep
    \/ ReturnRoot
    \/ \E i \in 1..MaxDepth : Len(guards) < MaxLedgers /\ lock(i)
    \/ \E g \in GuardId : DropGuard(g)
    \/ LedgerStep

LedgerSpec == Init /\ [][LedgerNext]_vars

\* Several guards live at once, acquired by the closure of a module
\* initializer or of a task, each with its own ledger; the claims and
\* releases are on the addresses the guards contend for.
SharedAddr == 1..MaxShared

GuardNext ==
    \/ \E k \in {"module", "task"} : HostInvoke(k, 0, FALSE)
    \/ ReturnRoot
    \/ \E i \in 1..MaxDepth : lock(i)
    \/ \E g \in GuardId : DropGuard(g)
    \/ \E g \in GuardId, p \in SharedAddr : TryBorrow(g, p)
    \/ \E g \in GuardId, p \in SharedAddr : Settle(g, p)
    \/ \E g \in GuardId, p \in SharedAddr : TryBorrowMut(g, p)
    \/ \E g \in GuardId, p \in SharedAddr : SettleMut(g, p)

GuardSpec == Init /\ [][GuardNext]_vars

(***************************************************************************)
(* The claims and releases of one ledger, counted.  shared is, per         *)
(* address, the number of try_borrow calls that returned Ok less the       *)
(* number of settle calls made so far through the guard: the shared claims *)
(* the callers of the ledger still hold.                                   *)
(***************************************************************************)
VmGuard_counted(d) ==
    [owner |-> d, ledger |-> VmGuard_new(d).ledger, excl |-> VmGuard_new(d).excl,
     shared |-> [p \in Addr |-> 0]]

CountedLock(i) ==
    /\ Running
    /\ i \in 1..Top
    /\ IF ~check_active(cxs[i])
       THEN Raise("lock", i)
       ELSE /\ Len(guards) < MaxLedgers
            /\ guards' = Append(guards, VmGuard_counted(Top))
            /\ lastOp' = GuardOp("lock", i, Len(guards) + 1)
            /\ UNCHANGED <<cxs, host, panicking>>
    /\ UNCHANGED others

CountedTryBorrow(g, p) ==
    /\ Running
    /\ Live(g)
    /\ guards[g].shared[p] < MaxClaims
    /\ LET r == try_borrow(guards[g].ledger, p) IN
       /\ guards' = [guards EXCEPT ![g].ledger = r.ledger,
                                   ![g].shared[p] = IF r.res = ResOk THEN @ + 1 ELSE @]
       /\ lastOp' = LedgerOp("try_borrow", g, p, guards[g].ledger, r.res)
    /\ UNCHANGED <<cxs, host, panicking>>
    /\ UNCHANGED others

CountedSettle(g, p) ==
    /\ Running
    /\ Live(g)
    /\ guards[g].shared[p] > -MaxClaims
    /\ guards' = [guards EXCEPT ![g].ledger = settle(@, p),
                                ![g].shared[p] = @ - 1]
    /\ lastOp' = LedgerOp("settle", g, p, guards[g].ledger, ResOk)
    /\ UNCHANGED <<cxs, host, panicking>>
    /\ UNCHANGED others

CountNext ==
    \/ HostStep
    \/ ReturnRoot
    \/ \E i \in 1..MaxDepth : CountedLock(i)
    \/ \E g \in GuardId : DropGuard(g)
    \/ \E g \in GuardId, p \in SharedAddr : CountedTryBorrow(g, p)
    \/ \E g \in GuardId, p \in SharedAddr : CountedSettle(g, p)
    \/ \E g \in GuardId, p \in SharedAddr : TryBorrowMut(g, p)
    \/ \E g \in GuardId, p \in SharedAddr : SettleMut(g, p)

CountSpec == Init /\ [][CountNext]_vars

\* The contexts that allocate a rooting region, under every host layout and
\* both build profiles.
LayoutInit ==
    /\ Idle
    /\ isolates = [i \in {} |-> NoData]
    /\ heap = [b \in {} |-> NoData]
    /\ info = NoInfo
    /\ exception = NoException
    /\ layout \in Layouts

LayoutNext ==
    \/ HostStep
    \/ \E i \in 1..MaxDepth : execute_scoped(i)
    \/ \E i \in 1..MaxDepth : compute_scoped(i)
    \/ ReturnRoot
    \/ ReturnExecute
    \/ ReturnComputeErr

LayoutSpec == LayoutInit /\ [][LayoutNext]_vars

\* The class registries of the VM instances the host creates and destroys.
ClassNext ==
    \/ \E iso \in IsolateId : NewIsolate(iso)
    \/ \E iso \in IsolateId : DisposeIsolate(iso)
    \/ \E iso \in IsolateId, key \in TypeId : ClassGet(iso, key)
    \/ \E iso \in IsolateId, key \in TypeId, val \in ClassMetadata :
           ClassSet(iso, key, val)

ClassSpec == Init /\ [][ClassNext]_vars

\* One invocation of a native function: the host has called the trampoline
\* with a call frame and CallContext::with has built the context
\* (vm.rs 654-662).
CallFrames ==
    UNION {[1..n -> HostValue] : n \in 0..MaxArgs}

ValueInit ==
    /\ \E args \in CallFrames :
           /\ info = CallbackInfo_new(args)
           /\ LET r == Scope_with(<<>>, <<>>, "call", 0, FALSE, Len(args), FALSE) IN
              /\ cxs = r.cxs
              /\ host = r.host
    /\ guards = <<>>
    /\ panicking = "none"
    /\ lastOp = Op("call", 1, TRUE, ResOk)
    /\ isolates = [i \in {} |-> NoData]
    /\ heap = [b \in {} |-> NoData]
    /\ exception = NoException
    /\ layout = HostLayout

ValueNext ==
    \/ \E i \in Int32 : ArgumentOpt(i)
    \/ \E i \in Int32 : Require(i)
    \/ \E i \in Int32, V \in ValueTypes : Argument(i, V)
    \/ AcceptAndReturnJsNumber
    \/ \E U \in ValueTypes : Upcast(U)
    \/ \E U \in ValueTypes : Downcast(U)
    \/ UnwrapOrThrow

ValueSpec == ValueInit /\ [][ValueNext]_vars

(***************************************************************************)
(* Properties.                                                             *)
(***************************************************************************)
LiveGuards == 1..Len(guards)

IsOk(r) == r.tag = "Ok"

\* C1: in every ledger, no address is recorded both as shared-claimed and as
\* exclusively claimed, and no address has more than one exclusive claim
\* granted and not yet released.
C1_LedgerDisjoint ==
    \A g \in LiveGuards :
        \A p \in Addr :
            /\ ~(p \in guards[g].ledger.immutable_loans
                 /\ p \in guards[g].ledger.mutable_loans)
            /\ guards[g].excl[p] <= 1

C1_Witness ==
    /\ lastOp.op = "try_borrow_mut"
    /\ ~IsOk(lastOp.res)
    /\ guards[lastOp.g].ledger.mutable_loans # {}
    /\ guards[lastOp.g].ledger.immutable_loans # {}

\* The step is the call op(p) on the ledger of guard g.
LedgerCall(op, g, p) ==
    /\ lastOp'.op = op
    /\ lastOp'.g = g
    /\ lastOp'.p = p
    /\ Live(g)

\* C2: try_borrow_mut(p) fails exactly when p was exclusively claimed or
\* shared-claimed in the ledger before the call; otherwise it succeeds and
\* the ledger records the exclusive claim on p.
C2_ExclusiveClaim ==
    [][\A g \in GuardId, p \in Addr :
          LedgerCall("try_borrow_mut", g, p) =>
              /\ ~IsOk(lastOp'.res) <=>
                     \/ p \in guards[g].ledger.mutable_loans
                     \/ p \in guards[g].ledger.immutable_loans
              /\ IsOk(lastOp'.res) => p \in guards'[g].ledger.mutable_loans]_vars

C2_Witness ==
    /\ lastOp.op = "try_borrow_mut"
    /\ lastOp.res = ErrFrozen(lastOp.p)
    /\ lastOp.p \in guards[lastOp.g].ledger.immutable_loans
    /\ lastOp.p \notin guards[lastOp.g].ledger.mutable_loans

\* C3: try_borrow(p) fails exactly when p was exclusively claimed in the
\* ledger before the call; otherwise it succeeds and the ledger records the
\* shared claim, also when p was already shared-claimed.
C3_SharedClaim ==
    [][\A g \in GuardId, p \in Addr :
          LedgerCall("try_borrow", g, p) =>
              /\ ~IsOk(lastOp'.res) <=> p \in guards[g].ledger.mutable_loans
              /\ IsOk(lastOp'.res) => p \in guards'[g].ledger.immutable_loans]_vars

\* A shared claim granted on an address that was already shared-claimed.
C3_Witness ==
    /\ lastOp.op = "try_borrow"
    /\ IsOk(lastOp.res)
    /\ lastOp.pi
    /\ lastOp.p \in guards[lastOp.g].ledger.immutable_loans

\* C4: an operation invoked through a context whose active flag is false
\* fails with the panic "VM context is inactive".
ContextOps ==
    {"lock", "borrow", "borrow_mut", "execute_scoped", "compute_scoped",
     "global", "len", "kind"}

C4_InactiveFails ==
    (lastOp.op \in ContextOps /\ ~lastOp.act) => lastOp.res = ResPanic

\* C5: while a nested computation is running, the context it was started
\* from is inactive and the nested context, whose closure is executing, is
\* active.
C5_NestedRunsAlone ==
    /\ \A k \in 1..Len(cxs) :
           cxs[k].kind \in NestedKinds => ~cxs[cxs[k].parent].active
    /\ (Running /\ cxs[Top].kind \in NestedKinds) => cxs[Top].active

\* C6: when execute_scoped or compute_scoped returns normally, with a value
\* or with Throw, the context it was called on is the innermost one and is
\* active again, so that its check_active passes, at every depth.
ReturnOps == {"return_execute", "return_compute"}

C6_ActiveAfterReturn ==
    lastOp.op \in ReturnOps =>
        /\ lastOp.cx = Top
        /\ check_active(cxs[lastOp.cx])

C6_Witness ==
    /\ lastOp.op = "return_compute"
    /\ lastOp.res = ResThrow
    /\ Top = MaxDepth - 1
    /\ cxs[Top].active

\* C7: at most one of the contexts that exist has its active flag true.
ActiveSet == {k \in 1..Len(cxs) : cxs[k].active}

C8_ScopesLifo ==
    [][/\ host' # host =>
            \/ Len(host') = Len(host) + 1 /\ SubSeq(host', 1, Len(host)) = host
            \/ host' = Pop(host)
       /\ lastOp'.op \in ReturnOps \cup {"return_root"} =>
            /\ host # <<>>
            /\ host[Len(host)].id = lastOp'.s
            /\ host' = Pop(host)]_vars

\* C9: when the nested computation of execute_scoped or compute_scoped
\* panics and the panic is caught, the context it was started from is
\* active.
C9_ActiveAfterPanic ==
    (lastOp.op = "catch" /\ lastOp.cx # 0) => cxs[lastOp.cx].active

\* C10: every handle a live context holds is rooted in a scope that is
\* still entered; the handle compute_scoped returns is rooted in the scope
\* of the context it was called on; and once execute_scoped or
\* compute_scoped has returned, the inner scope is exited and no context
\* holds a handle rooted in it.
HeldHandles == UNION {cxs[k].hs : k \in 1..Len(cxs)}

C10_EscapeRooting ==
    /\ \A h \in HeldHandles : Valid(h)
    /\ (lastOp.op = "return_compute" /\ lastOp.res.tag = "Handle") =>
           /\ lastOp.res.a = cxs[lastOp.cx].scope
           /\ [obj |-> lastOp.res.obj, scope |-> lastOp.res.a] \in cxs[lastOp.cx].hs
    /\ lastOp.op \in ReturnOps =>
           /\ lastOp.s \notin HostIds(host)
           /\ \A h \in HeldHandles : h.scope # lastOp.s

C10_Witness ==
    /\ lastOp.op = "return_compute"
    /\ lastOp.res.tag = "Handle"
    /\ Top = MaxDepth - 1
    /\ lastOp.res.a = cxs[Top].scope
    /\ lastOp.s # lastOp.res.a

\* C11: a compute_scoped whose closure returns a handle calls the host's
\* escape primitive exactly once, on that handle and on its own escapable
\* scope while that scope is entered, and returns the escaped handle; one
\* whose closure returns Throw calls it zero times and returns Throw.
C11_EscapeOnce ==
    lastOp.op = "return_compute" =>
        /\ lastOp.ret.tag \in {"Handle", "Throw"}
        /\ lastOp.ret.tag = "Handle" =>
               /\ Len(lastOp.esc) = 1
               /\ lastOp.esc[1].scope = lastOp.s
               /\ ResHandle(lastOp.esc[1].h) = lastOp.ret
               /\ lastOp.esc[1].entered
               /\ lastOp.s \notin HostIds(host)
               /\ lastOp.res.tag = "Handle"
               /\ lastOp.res.obj = lastOp.ret.obj
        /\ lastOp.ret.tag = "Throw" =>
               /\ lastOp.esc = <<>>
               /\ lastOp.res = ResThrow

C11_Witness ==
    /\ lastOp.op = "return_compute"
    /\ lastOp.ret.tag = "Handle"
    /\ Len(lastOp.esc) = 1
    /\ lastOp.res.tag = "Handle"

ClassOps == {"class_get", "class_set"}

\* C12: for every VM instance, set_class_map has been called at most once,
\* the slot, once filled, holds a live registry, there are exactly as many
\* registries as instances that used theirs, and every class_map() call
\* returns the registry in the instance's slot, filling the slot only if it
\* was empty.
C12_OneRegistry ==
    /\ \A iso \in DOMAIN isolates :
           /\ isolates[iso].installs <= 1
           /\ isolates[iso].installs = 1 <=> isolates[iso].data # NoData
           /\ isolates[iso].data # NoData => isolates[iso].data \in DOMAIN heap
    /\ \A i, j \in DOMAIN isolates :
           (i # j /\ isolates[i].data # NoData) => isolates[i].data # isolates[j].data
    /\ DOMAIN heap = {isolates[iso].data : iso \in DOMAIN isolates} \ {NoData}
    /\ lastOp.op \in ClassOps =>
           /\ lastOp.ptr # NoData
           /\ lastOp.ptr = isolates[lastOp.iso].data

\* A second call on an instance whose slot was already filled.
C12_Witness ==
    /\ lastOp.op = "class_get"
    /\ lastOp.res # None
    /\ isolates[lastOp.iso].installs = 1
    /\ Cardinality(DOMAIN heap) = MaxIsolates

\* C13: registering a class in the registry of one VM instance changes the
\* result of no lookup in the registry of another instance.
C13_RegistriesIndependent ==
    [][lastOp'.op = "class_set" =>
          \A other \in IsolateId \ {lastOp'.iso}, k \in TypeId :
              Lookup(isolates', heap', other, k) = Lookup(isolates, heap, other, k)]_vars

\* A class registered in one instance while another instance has one
\* registered under the same type, with other metadata.
C13_Witness ==
    /\ lastOp.op = "class_set"
    /\ \E other \in DOMAIN isolates \ {lastOp.iso} :
           /\ Lookup(isolates, heap, other, lastOp.key) # None
           /\ Lookup(isolates, heap, other, lastOp.key) # Some(lastOp.val)
    /\ Lookup(isolates, heap, lastOp.iso, lastOp.key) = Some(lastOp.val)

\* C14: ClassMap::set(key, val) makes the lookup of key return val, also
\* when key was registered before, and leaves the lookups of the other
\* types as they were; ClassMap::get returns what is registered and changes
\* nothing; and a registered type stays registered as long as its instance
\* exists.
C14_OverwriteNoEviction ==
    [][/\ lastOp'.op = "class_set" =>
              /\ Lookup(isolates', heap', lastOp'.iso, lastOp'.key) = Some(lastOp'.val)
              /\ \A k \in TypeId \ {lastOp'.key} :
                     Lookup(isolates', heap', lastOp'.iso, k)
                         = Lookup(isolates, heap, lastOp'.iso, k)
       /\ lastOp'.op = "class_get" =>
              /\ lastOp'.res = Lookup(isolates, heap, lastOp'.iso, lastOp'.key)
              /\ \A iso \in IsolateId, k \in TypeId :
                     Lookup(isolates', heap', iso, k) = Lookup(isolates, heap, iso, k)
       /\ \A iso \in DOMAIN isolates', k \in TypeId :
              Lookup(isolates, heap, iso, k) # None =>
                  Lookup(isolates', heap', iso, k) # None]_vars

\* The same type registered a second time, with other metadata.
C14_Witness ==
    /\ lastOp.op = "class_set"
    /\ lastOp.prev # None
    /\ lastOp.prev # Some(lastOp.val)
    /\ Lookup(isolates, heap, lastOp.iso, lastOp.key) = Some(lastOp.val)

\* The index is outside the call frame's argument slots.
OutOfFrame(i) == i < 0 \/ i >= Len(info.args)

Contains(seq, w) == \E k \in 1..Len(seq) : seq[k] = w

\* C15: for a call frame with len() arguments and an i32 index i, require(i)
\* and argument(i) throw the TypeError "not enough arguments" and return
\* Throw exactly when i < 0 or i >= len(); argument_opt(i) returns None for
\* exactly those i; and no slot outside 0..len()-1 is fetched from the host.
C15_ArgumentBounds ==
    /\ lastOp.op \in {"require", "argument"} =>
           /\ OutOfFrame(lastOp.i) <=>
                  /\ lastOp.res = Throw
                  /\ exception = [kind |-> "TypeError", msg |-> NotEnough]
           /\ lastOp.op = "require" => (OutOfFrame(lastOp.i) <=> lastOp.res = Throw)
    /\ lastOp.op = "argument_opt" => (OutOfFrame(lastOp.i) <=> lastOp.res = None)
    /\ lastOp.op \in {"require", "argument", "argument_opt"} =>
           /\ \A k \in 1..Len(lastOp.fetched) :
                  lastOp.fetched[k] \in 0..(Len(info.args) - 1)
           /\ OutOfFrame(lastOp.i) => lastOp.fetched = <<>>

\* argument(i) with a negative index on a frame that has arguments.
C15_Witness ==
    /\ lastOp.op = "argument"
    /\ lastOp.i < 0
    /\ Len(info.args) > 0
    /\ lastOp.res = Throw
    /\ exception.msg = NotEnough

\* C16: the native function that returns argument::<JsNumber>(0) returns a
\* handle identity-equal to the value in slot 0 when the frame has a slot 0
\* and its value is a number; otherwise it returns Throw, the pending
\* exception being "not enough arguments" when the slot is missing and the
\* failed downcast when the value is of another kind.
C16_ArgumentIdentity ==
    lastOp.op = "accept_and_return_js_number" =>
        IF OutOfFrame(0)
        THEN /\ lastOp.res = Throw
             /\ exception = [kind |-> "TypeError", msg |-> NotEnough]
        ELSE IF is_typeof("JsNumber", info.args[1])
             THEN /\ lastOp.res.tag = "Ok"
                  /\ same_handle(lastOp.res.h.obj, info.args[1])
                  /\ lastOp.res.h.ty = "JsNumber"
             ELSE /\ lastOp.res = Throw
                  /\ exception = [kind |-> "TypeError",
                                  msg |-> DowncastError_new("JsNumber").description]

C16_Witness ==
    /\ lastOp.op = "accept_and_return_js_number"
    /\ lastOp.res.tag = "Ok"
    /\ lastOp.res.h.obj = info.args[1]
    /\ info.args[1].kind = "number"
    /\ info.args[1].id = MaxVals

\* C17: downcast to a kind K succeeds exactly when the value passes K's
\* runtime type test; the handle it gives refers to the same value with the
\* same lifetime, under the kind K; the description of the error it gives
\* contains K's name, after "failed downcast to".
C17_DowncastCorrect ==
    lastOp.op = "downcast" =>
        /\ lastOp.res.tag \in {"Ok", "Err"}
        /\ lastOp.res.tag = "Ok" <=> is_a(lastOp.from, lastOp.ty)
        /\ lastOp.res.tag = "Ok" =>
               /\ lastOp.res.h.obj = lastOp.from.obj
               /\ lastOp.res.h.scope = lastOp.from.scope
               /\ lastOp.res.h.ty = lastOp.ty
        /\ lastOp.res.tag = "Err" =>
               /\ Contains(lastOp.res.e.description, name(lastOp.ty))
               /\ lastOp.res.e.description
                      = <<"failed", "downcast", "to">> \o <<name(lastOp.ty)>>

\* A failed downcast of an array to a number.
C17_Witness ==
    /\ lastOp.op = "downcast"
    /\ lastOp.res.tag = "Err"
    /\ lastOp.from.obj.kind = "array"
    /\ lastOp.ty = "JsNumber"

\* C18: unwrap_or_throw on a successful downcast returns the same handle and
\* leaves the host's pending exception as it was; on a failed downcast it
\* returns Throw and the host's pending exception is a TypeError whose
\* message is the downcast error's description.
C18_UnwrapOrThrow ==
    [][lastOp'.op = "unwrap_or_throw" =>
          /\ lastOp'.from = lastOp.res
          /\ lastOp.res.tag = "Ok" =>
                 /\ lastOp'.res = Ok(lastOp.res.h)
                 /\ exception' = exception
          /\ lastOp.res.tag = "Err" =>
                 /\ lastOp'.res = Throw
                 /\ exception' = [kind |-> "TypeError",
                                  msg |-> lastOp.res.e.description]]_vars

\* A failed downcast promoted to the host's pending TypeError.
C18_Witness ==
    /\ lastOp.op = "unwrap_or_throw"
    /\ lastOp.from.tag = "Err"
    /\ lastOp.res = Throw
    /\ exception.msg = lastOp.from.e.description

\* C19: for a handle h of kind T and a supertype kind U of T, upcast to U
\* gives a handle of kind U to the same value with the same lifetime, and
\* downcasting that handle to T succeeds with a handle identity-equal to h;
\* the upcast and the downcast that the native function performs behave so.
C19_UpcastDowncast ==
    /\ (lastOp.op \in ValueOps /\ HasHandle(lastOp.res)) =>
           LET h == HandleOf(lastOp.res) IN
           \A U \in SuperTypes(h.ty) :
               /\ upcast(h, U).ty = U
               /\ upcast(h, U).scope = h.scope
               /\ Handle_eq(upcast(h, U), h)
               /\ downcast(upcast(h, U), h.ty).tag = "Ok"
               /\ Handle_eq(downcast(upcast(h, U), h.ty).h, h)
               /\ downcast(upcast(h, U), h.ty).h.ty = h.ty
    /\ lastOp.op = "upcast" =>
           /\ lastOp.res.tag = "Ok"
           /\ Handle_eq(lastOp.res.h, lastOp.from)
    /\ (lastOp.op = "downcast" /\ lastOp.src = "upcast"
            /\ is_typeof(lastOp.ty, lastOp.from.obj)) =>
           /\ lastOp.res.tag = "Ok"
           /\ Handle_eq(lastOp.res.h, lastOp.from)

\* An array handle back from its upcast to JsObject.
C19_Witness ==
    /\ lastOp.op = "downcast"
    /\ lastOp.src = "upcast"
    /\ lastOp.from.ty = "JsObject"
    /\ lastOp.ty = "JsArray"
    /\ lastOp.res.tag = "Ok"
    /\ lastOp.res.h.obj = lastOp.from.obj

\* C20: settle(p) removes p from the shared claims and settle_mut(p) from
\* the exclusive claims, and neither changes anything else in the ledger;
\* when the claim is absent the whole ledger is unchanged; and releasing
\* again after a release leaves the ledger as the first release left it.
C20_ReleaseIdempotent ==
    [][\A g \in GuardId, p \in Addr :
          /\ LedgerCall("settle", g, p) =>
                 /\ guards'[g].ledger.immutable_loans
                        = guards[g].ledger.immutable_loans \ {p}
                 /\ guards'[g].ledger.mutable_loans = guards[g].ledger.mutable_loans
                 /\ p \notin guards[g].ledger.immutable_loans =>
                        guards'[g].ledger = guards[g].ledger
                 /\ settle(guards'[g].ledger, p) = guards'[g].ledger
          /\ LedgerCall("settle_mut", g, p) =>
                 /\ guards'[g].ledger.mutable_loans
                        = guards[g].ledger.mutable_loans \ {p}
                 /\ guards'[g].ledger.immutable_loans = guards[g].ledger.immutable_loans
                 /\ p \notin guards[g].ledger.mutable_loans =>
                        guards'[g].ledger = guards[g].ledger
                 /\ settle_mut(guards'[g].ledger, p) = guards'[g].ledger]_vars

\* The release of a shared claim that was never taken, on an address that
\* is exclusively claimed.
C20_Witness ==
    /\ lastOp.op = "settle"
    /\ ~lastOp.pi
    /\ lastOp.p \in guards[lastOp.g].ledger.mutable_loans
    /\ guards[lastOp.g].ledger.immutable_loans # {}

\* C21: once the claim that blocked it is released, a claim succeeds again on
\* the same address: after settle_mut(p) of an exclusive claim on p both
\* try_borrow(p) and try_borrow_mut(p) succeed on the resulting ledger, and
\* after settle(p) of the shared claim on p try_borrow_mut(p) succeeds.
C21_ReleaseUnblocks ==
    [][\A g \in GuardId, p \in Addr :
          /\ (LedgerCall("settle_mut", g, p) /\ p \in guards[g].ledger.mutable_loans) =>
                 /\ ~IsOk(try_borrow(guards[g].ledger, p).res)
                 /\ ~IsOk(try_borrow_mut(guards[g].ledger, p).res)
                 /\ IsOk(try_borrow(guards'[g].ledger, p).res)
                 /\ IsOk(try_borrow_mut(guards'[g].ledger, p).res)
          /\ (LedgerCall("settle", g, p) /\ p \in guards[g].ledger.immutable_loans) =>
                 /\ ~IsOk(try_borrow_mut(guards[g].ledger, p).res)
                 /\ IsOk(try_borrow_mut(guards'[g].ledger, p).res)
          /\ (/\ lastOp.g = g /\ lastOp.p = p
              /\ \/ /\ lastOp.op = "settle_mut" /\ lastOp.pm
                    /\ \/ LedgerCall("try_borrow", g, p)
                       \/ LedgerCall("try_borrow_mut", g, p)
                 \/ /\ lastOp.op = "settle" /\ lastOp.pi
                    /\ LedgerCall("try_borrow_mut", g, p)) =>
                 IsOk(lastOp'.res)]_vars

\* An exclusive claim was released while another address of the same ledger
\* stays claimed, and the released address can be claimed again.
C21_Witness ==
    /\ lastOp.op = "settle_mut"
    /\ lastOp.pm
    /\ lastOp.p \notin guards[lastOp.g].ledger.mutable_loans
    /\ guards[lastOp.g].ledger.mutable_loans # {}
    /\ IsOk(try_borrow_mut(guards[lastOp.g].ledger, lastOp.p).res)

\* C22: a refused claim reports a typed violation carrying the requested
\* address: a refused try_borrow(p) reports LoanError::Mutating(p); a refused
\* try_borrow_mut(p) reports LoanError::Mutating(p) when p holds an exclusive
\* claim and LoanError::Frozen(p) when p holds a shared claim.
C22_TypedViolation ==
    [][\A g \in GuardId, p \in Addr :
          /\ LedgerCall("try_borrow", g, p) =>
                 lastOp'.res \in {ResOk, ErrMutating(p)}
          /\ LedgerCall("try_borrow_mut", g, p) =>
                 /\ lastOp'.res \in {ResOk, ErrMutating(p), ErrFrozen(p)}
                 /\ p \in guards[g].ledger.mutable_loans =>
                        lastOp'.res = ErrMutating(p)
                 /\ p \in guards[g].ledger.immutable_loans =>
                        lastOp'.res = ErrFrozen(p)]_vars

\* An exclusive claim refused with Mutating on the second address while the
\* first address of the same ledger is shared-claimed.
C22_Witness ==
    /\ lastOp.op = "try_borrow_mut"
    /\ lastOp.p = MaxAddr
    /\ lastOp.pm
    /\ lastOp.res = ErrMutating(MaxAddr)
    /\ 1 \in guards[lastOp.g].ledger.immutable_loans

\* The claims a ledger records on one address.
ClaimsOn(l, b) == <<b \in l.immutable_loans, b \in l.mutable_loans>>

\* C26: a refused claim leaves the ledger unchanged; a claim or a release on
\* address p, granted or not, leaves the recorded claims of every other
\* address unchanged; settle never removes an exclusive claim and settle_mut
\* never removes a shared claim.
C26_LedgerFrame ==
    [][\A g \in GuardId, p \in Addr :
          /\ (\/ LedgerCall("try_borrow", g, p)
              \/ LedgerCall("try_borrow_mut", g, p)) =>
                 (~IsOk(lastOp'.res) => guards'[g].ledger = guards[g].ledger)
          /\ (\/ LedgerCall("try_borrow", g, p)
              \/ LedgerCall("try_borrow_mut", g, p)
              \/ LedgerCall("settle", g, p)
              \/ LedgerCall("settle_mut", g, p)) =>
                 \A b \in Addr \ {p} :
                     ClaimsOn(guards'[g].ledger, b) = ClaimsOn(guards[g].ledger, b)
          /\ LedgerCall("settle", g, p) =>
                 guards'[g].ledger.mutable_loans = guards[g].ledger.mutable_loans
          /\ LedgerCall("settle_mut", g, p) =>
                 guards'[g].ledger.immutable_loans
                     = guards[g].ledger.immutable_loans]_vars

\* An exclusive claim was released on one address while another address of
\* the same ledger keeps its exclusive claim.
C26_Witness ==
    /\ lastOp.op = "settle_mut"
    /\ lastOp.pm
    /\ \E b \in Addr \ {lastOp.p} : b \in guards[lastOp.g].ledger.mutable_loans
    /\ lastOp.p \notin guards[lastOp.g].ledger.mutable_loans
    /\ lastOp.p \notin guards[lastOp.g].ledger.immutable_loans
    /\ guards[lastOp.g].excl[lastOp.p] = 0

\* The operations that start with check_active.
CheckedOps == {"lock", "borrow", "borrow_mut", "execute_scoped", "compute_scoped"}

\* C25: lock, borrow, borrow_mut, execute_scoped or compute_scoped called on
\* an inactive context does nothing but raise the fatal error: no frame is
\* pushed for the closure, no scope is entered and no escape is made, no
\* guard or claim is created, and the active flag of every context stays.
C25_InactiveNoEffect ==
    [][\A i \in 1..MaxDepth :
          (/\ i <= Len(cxs)
           /\ ~cxs[i].active
           /\ lastOp'.op \in CheckedOps
           /\ lastOp'.cx = i) =>
              /\ lastOp'.res = ResPanic
              /\ lastOp'.esc = <<>>
              /\ panicking' = "inactive"
              /\ cxs' = cxs
              /\ host' = host
              /\ guards' = guards]_vars

\* compute_scoped was refused on an inactive context below the innermost one
\* while a guard is live; the nested context is still the active one.
C25_Witness ==
    /\ lastOp.op = "compute_scoped"
    /\ lastOp.res = ResPanic
    /\ lastOp.cx < Len(cxs)
    /\ ~cxs[lastOp.cx].active
    /\ cxs[Len(cxs)].active
    /\ guards # <<>>
    /\ Len(host) = Len(cxs)

\* The outcomes of the two kinds of claim on every address of a ledger.
Outcomes(l) == [p \in Addr |-> <<try_borrow(l, p).res, try_borrow_mut(l, p).res>>]

\* C23: lock() on an active context returns a guard with a fresh, empty
\* ledger whatever the other live guards hold, and leaves their ledgers
\* alone; a claim or a release through one guard changes neither the ledger
\* of another guard nor the outcome of any claim through it, and its own
\* outcome is that of its own ledger alone.
C23_GuardsIndependent ==
    [][/\ \A i \in 1..MaxDepth :
             (i <= Len(cxs) /\ cxs[i].active
              /\ lastOp'.op = "lock" /\ lastOp'.cx = i) =>
                 /\ lastOp'.res = ResOk
                 /\ Len(guards') = Len(guards) + 1
                 /\ guards'[Len(guards')].ledger = Ledger_new
                 /\ \A h \in 1..Len(guards) : guards'[h] = guards[h]
       /\ \A g \in GuardId, p \in Addr :
             (\/ LedgerCall("try_borrow", g, p)
              \/ LedgerCall("try_borrow_mut", g, p)
              \/ LedgerCall("settle", g, p)
              \/ LedgerCall("settle_mut", g, p)) =>
                 /\ Len(guards') = Len(guards)
                 /\ \A h \in 1..Len(guards) \ {g} :
                        /\ guards'[h].ledger = guards[h].ledger
                        /\ Outcomes(guards'[h].ledger) = Outcomes(guards[h].ledger)
                 /\ LedgerCall("try_borrow", g, p) =>
                        lastOp'.res = try_borrow(guards[g].ledger, p).res
                 /\ LedgerCall("try_borrow_mut", g, p) =>
                        lastOp'.res = try_borrow_mut(guards[g].ledger, p).res]_vars

\* Two guards hold an exclusive claim on the same address, the second one
\* granted while the first was held.
C23_Witness ==
    /\ Len(guards) >= 2
    /\ lastOp.op = "try_borrow_mut"
    /\ lastOp.g = 2
    /\ IsOk(lastOp.res)
    /\ lastOp.p \in guards[1].ledger.mutable_loans
    /\ lastOp.p \in guards[2].ledger.mutable_loans
    /\ guards[1].excl[lastOp.p] = 1
    /\ guards[2].excl[lastOp.p] = 1

\* C27: try_borrow_mut(p) is refused whenever a shared claim on p is still
\* outstanding, that is whenever more try_borrow(p) calls have succeeded
\* than settle(p) calls have been made through the ledger.
C27_OutstandingSharedBlocks ==
    [][\A g \in GuardId, p \in Addr :
          (LedgerCall("try_borrow_mut", g, p) /\ guards[g].shared[p] > 0) =>
              ~IsOk(lastOp'.res)]_vars

\* The host reports a size or an alignment other than the one reserved.
Mismatch == scope_size(layout) # size_of \/ scope_alignment(layout) # align_of

\* C24: when the host-reported size or alignment of the rooting-region
\* primitive does not match the native-side reservation, every context
\* variant that allocates a rooting region aborts with a fatal error before
\* any scope is entered.
C24_LayoutMismatchAborts ==
    Mismatch =>
        /\ host = <<>>
        /\ cxs = <<>>
        /\ lastOp.op \in RootKinds => lastOp.res = ResPanic

====
